---- MODULE Spec2Model ----
(***************************************************************************)
(* State-machine model of the OneKeyVE video reframing scripts.            *)
(*                                                                         *)
(*   gui  : src/main_gui_v3_release.py  VideoWorker (run, run_ffmpeg_task) *)
(*          and MainWindow.safe_exit                                       *)
(*   ff   : src/Video_Edit_FF.py        main, get_video_info,              *)
(*          process_video                                                  *)
(*   qw   : src/VE_QW_FInal_prefect.py  process_all_videos,                *)
(*          process_single_video, FFmpegManager.process_video,             *)
(*          FFmpegManager.create_feathered_foreground                      *)
(*   wall : src/ve_wallpaper.py         VideoWallpaperProductionEngine     *)
(*                                                                         *)
(* Exactly one of the four programs runs in a behaviour (variable prog).   *)
(* The external engine (ffmpeg) is a child process: it may write lines to  *)
(* its pipe, exit with a code, or stay alive and silent.  A blocking call  *)
(* (readline) is an action that is enabled only when the call can return.  *)
(* Time passes (Tick) only while the supervisor is blocked in readline:    *)
(* every other step of the supervisor takes no time.                       *)
(***************************************************************************)
EXTENDS Integers, Sequences, FiniteSets, TLC

(* ------------------------------ bounds --------------------------------- *)
\* number of video files the directory scan may discover
NumFiles == 2
\* largest frame number the engine prints in a frame=<n> token
MaxFrame == 1
\* lines the pipe holds before the engine blocks on write
MaxPipe == 1
\* seconds of one clock step of the gui model
TickSecs == 5
\* largest value of int(time.time()) in the qw model
MaxClock == 1
\* largest width and height for which the ratio tests are compared
MaxDim == 40

(* ------------------------- program constants --------------------------- *)
\* time.time() - last_active_time > 25
WatchdogSecs == 25
\* MAX_DURATION = 60.0
MAX_DURATION == 60
\* TRIM_DURATION = 14.0
TRIM_DURATION == 14
\* FEATHER_WIDTH = 30
FEATHER_WIDTH == 30
\* calculate_target_resolution: always 1080 x 1920
target_width == 1080
target_height == 1920

Progs == {"gui", "ff", "qw", "wall"}

\* the two target presets [('9x20', 9/20), ('5x11', 5/11)]
Ratios ==
    << [label |-> "9x20", num |-> 9, den |-> 20],
       [label |-> "5x11", num |-> 5, den |-> 11] >>

\* the string "N/A" in a numeric field of a probe result
NA == -1

\* what ffprobe may report to the gui and wallpaper scripts: width, height,
\* nb_frames (nb_frames 0 stands for a stream without the field, NA for the
\* string "N/A")
Probes == { [w |-> 1921, h |-> 1081, nb |-> MaxFrame],
            [w |-> 721, h |-> 1281, nb |-> 0],
            [w |-> 400, h |-> 1000, nb |-> 0],
            [w |-> 721, h |-> 1281, nb |-> NA],
            [w |-> 51, h |-> 51, nb |-> 0] }

\* what ffprobe may report to Video_Edit_FF.py: width, height, duration
\* (duration 0 stands for a stream without the field, NA for "N/A")
FFProbes == { [w |-> 1920, h |-> 1080, duration |-> 0],
              [w |-> 1000, h |-> 1000, duration |-> 10],
              [w |-> 640, h |-> 0, duration |-> 10],
              [w |-> 1000, h |-> 1000, duration |-> NA] }

\* what ffprobe may report to VE_QW_FInal_prefect.py: width, height, sample
\* aspect ratio sar_num:sar_den and duration in seconds (NA: the field is
\* missing or holds "N/A")
QwProbes ==
    { [w |-> 1080, h |-> 1920, sar_num |-> 1, sar_den |-> 1, duration |-> 10],
      [w |-> 1280, h |-> 960, sar_num |-> 1, sar_den |-> 1, duration |-> 90],
      [w |-> 1000, h |-> 1500, sar_num |-> 1, sar_den |-> 1, duration |-> 10],
      [w |-> 700, h |-> 1280, sar_num |-> 4, sar_den |-> 3, duration |-> 10],
      [w |-> 1920, h |-> 1080, sar_num |-> 1, sar_den |-> 1, duration |-> 10],
      [w |-> 2560, h |-> 1080, sar_num |-> 1, sar_den |-> 1, duration |-> 10],
      [w |-> 1000, h |-> 1500, sar_num |-> NA, sar_den |-> NA,
       duration |-> NA] }

\* a line of engine output: a frame=<n> token, or a line without one
Lines == [tok : {TRUE}, n : 0..MaxFrame] \cup { [tok |-> FALSE, n |-> 0] }

\* a file of the scratch directory temp_processing: its prefix, the clock
\* second in its name, and for trimmed_/rotated_ names the source file and
\* the second in the name of the trimmed file it was made from (-1: none)
Path(kind, sec, file, inner) ==
    [kind |-> kind, sec |-> sec, file |-> file, inner |-> inner]
NoPath == Path("none", -1, 0, -1)

\* no foreground geometry has been computed for the unit
NoFg == [scaled_width |-> 0, scaled_height |-> 0, pad_x |-> 0, pad_y |-> 0]

VARIABLES
    prog,              \* which script runs
    pc,                \* position of the batch loop
    n_files,           \* len(videos) / len(video_files) / len(files)
    vi,                \* index of the file being handled (1-based)
    ri,                \* index into Ratios of the unit being handled
    raw,               \* (width, height) of the probed file
    original_ratio,    \* qw: display ratio of the working source, as the
                       \* fraction <<numerator, denominator>>
    total_f,           \* nb_frames of the probed file
    attempt,           \* encoder of the engine run in progress: none, hw, sw
    proc,              \* state of the engine processes of the unit
    pipe,              \* lines written by the engine and not yet read
    tpc,               \* position inside the read loop: none, check, read
    last_frame_count,  \* last_frame_count (gui), last_f (wallpaper)
    progress_out,      \* last progress value delivered: pct (gui), pbar.n
    is_running,        \* VideoWorker.is_running (cooperative cancel flag)
    idle,              \* time.time() - last_active_time, in seconds
    gap_seen,          \* history: idle exceeded WatchdogSecs in the task
    unit_launches,     \* history: commands launched for the current unit
    gpu_out,           \* history: how the hardware attempt of the unit ended
    cpu_out,           \* history: how the software attempt of the unit ended
    unit_reported,     \* history: the unit was logged as done and counted
    completed_tasks,   \* VideoWorker.run local
    finished_signals,  \* number of finished_signal.emit() calls
    error_signals,     \* number of error_signal.emit() calls
    processed_count,   \* Video_Edit_FF.main local
    skipped_count,     \* Video_Edit_FF.main local
    error_count,       \* Video_Edit_FF.main local
    success_count,     \* process_all_videos local
    clock,             \* int(time.time()) of the qw script
    duration,          \* duration of the working source of the qw unit
    input_path,        \* working source of the qw unit: orig, trimmed, rotated
    temp_trimmed_path, \* process_video local
    temp_rotated_path, \* process_video local
    temp_fg_path,      \* the scaled foreground of create_feathered_foreground
    fg,                \* size and place of the foreground it computed
    temp_final_path,   \* the feathered or blurred foreground handed back
    scratch,           \* files that exist in temp_processing
    temp_dir,          \* the directory temp_processing exists
    last_unit,         \* the unit that ended since the last loop head: did
                       \* it fail, and the state of its output path
    temp_uses,         \* history: (file, scratch path) pairs named in the
                       \* current clock second (older names cannot recur)
    probed,            \* history: files whose probe was started
    probe_failed,      \* history: files whose probe failed
    launched,          \* history: units whose engine was run
    enc_failed,        \* history: units whose engine run failed
    recorded,          \* history: units the batch loop recorded as failed
    abort_at,          \* history: file at which the batch loop was left, or 0
    na_file            \* history: the file probed last, when its probe
                       \* result held an N/A or missing field; else 0

loopVars == << pc, n_files, vi, ri, raw, original_ratio, total_f >>
childVars == << attempt, proc, pipe, tpc, last_frame_count, progress_out >>
guiVars == << is_running, idle, gap_seen, unit_launches, gpu_out, cpu_out,
              unit_reported, completed_tasks, finished_signals,
              error_signals >>
ffVars == << processed_count, skipped_count, error_count >>
qwVars == << success_count, clock, duration, input_path, temp_trimmed_path,
             temp_rotated_path, temp_fg_path, fg, temp_final_path, scratch,
             temp_dir, temp_uses >>
histVars == << probed, probe_failed, launched, enc_failed, recorded,
               abort_at, na_file >>
vars == << prog, loopVars, childVars, guiVars, ffVars, qwVars, histVars,
          last_unit >>

\* proc: per encoder, none (not started), alive, exit0 / exit1 (the exit
\* was seen by poll()), killed (terminate() was called and the exit was not
\* waited for: the process may still be running)
NoProc == [hw |-> "none", sw |-> "none"]

\* no unit has ended since the last loop head
NoUnit == [failed |-> FALSE, out |-> "absent"]

Init ==
    /\ prog \in Progs
    /\ pc = "start"
    /\ n_files = 0
    /\ vi = 0
    /\ ri = 0
    /\ raw = <<0, 0>>
    /\ original_ratio = <<0, 1>>
    /\ total_f = 0
    /\ attempt = "none"
    /\ proc = NoProc
    /\ pipe = << >>
    /\ tpc = "none"
    /\ last_frame_count = -1
    /\ progress_out = -1
    /\ is_running = TRUE
    /\ idle = 0
    /\ gap_seen = FALSE
    /\ unit_launches = << >>
    /\ gpu_out = "none"
    /\ cpu_out = "none"
    /\ unit_reported = FALSE
    /\ completed_tasks = 0
    /\ finished_signals = 0
    /\ error_signals = 0
    /\ processed_count = 0
    /\ skipped_count = 0
    /\ error_count = 0
    /\ success_count = 0
    /\ clock = 0
    /\ duration = 0
    /\ input_path = "orig"
    /\ temp_trimmed_path = NoPath
    /\ temp_rotated_path = NoPath
    /\ temp_fg_path = NoPath
    /\ fg = NoFg
    /\ temp_final_path = NoPath
    /\ scratch = {}
    /\ temp_dir = (prog = "qw")
    /\ temp_uses = {}
    /\ probed = {}
    /\ probe_failed = {}
    /\ launched = {}
    /\ enc_failed = {}
    /\ recorded = {}
    /\ abort_at = 0
    /\ na_file = 0
    /\ last_unit = NoUnit

Min(a, b) == IF a <= b THEN a ELSE b

(* ========================= the engine process =========================== *)
\* subprocess.Popen: a fresh child with an empty pipe, the read loop at pos
Popen(enc, p, pos, last, shown) ==
    /\ attempt' = enc
    /\ proc' = [p EXCEPT ![enc] = "alive"]
    /\ pipe' = << >>
    /\ tpc' = pos
    /\ last_frame_count' = last
    /\ progress_out' = shown

\* the read loop is left: its locals are dead
Reap(p) ==
    /\ attempt' = "none"
    /\ proc' = p
    /\ pipe' = << >>
    /\ tpc' = "none"
    /\ last_frame_count' = -1
    /\ progress_out' = -1

\* readline() returns '' and poll() is not None
AtEof == pipe = << >> /\ proc[attempt] \in {"exit0", "exit1"}

\* readline() cannot return: nothing buffered and the child holds the pipe
Blocked == tpc = "read" /\ pipe = << >> /\ proc[attempt] = "alive"

ChildWrite ==
    /\ attempt # "none" /\ proc[attempt] = "alive"
    /\ Len(pipe) < MaxPipe
    /\ \E line \in Lines : pipe' = Append(pipe, line)
    /\ UNCHANGED << prog, last_unit, loopVars, attempt, proc, tpc,
                    last_frame_count,
                    progress_out, guiVars, ffVars, qwVars, histVars >>

ChildExit ==
    /\ attempt # "none" /\ proc[attempt] = "alive"
    /\ \E code \in {"exit0", "exit1"} : proc' = [proc EXCEPT ![attempt] = code]
    /\ UNCHANGED << prog, last_unit, loopVars, attempt, pipe, tpc,
                    last_frame_count,
                    progress_out, guiVars, ffVars, qwVars, histVars >>

(* ======================= gui: the filter graph ========================== *)
is_landscape_or_square(raw_w, raw_h) == raw_w >= raw_h

\* VideoWorker.run: rotation decision and working dimensions
is_landscape(raw_w, raw_h) == raw_w > raw_h
working(raw_w, raw_h) ==
    IF is_landscape(raw_w, raw_h) THEN <<raw_h, raw_w>> ELSE <<raw_w, raw_h>>

\* target_h = int(w / ratio), ratio = num/den
target_h(w, r) == (w * Ratios[r].den) \div Ratios[r].num

\* the parameters filter_str is formatted from; feather is the thickness of
\* the four black drawbox bands of the mask and the boxblur radius (the
\* literal 30)
filter_str(raw_w, raw_h, r) ==
    LET w == working(raw_w, raw_h)[1]
        h == working(raw_w, raw_h)[2]
        sw == (w \div 2) * 2
        sh == (h \div 2) * 2
        sth == (target_h(w, r) \div 2) * 2
    IN  [ trans |-> IF is_landscape(raw_w, raw_h) THEN "transpose=1" ELSE "copy",
          sw |-> sw, sh |-> sh, sth |-> sth,
          y_off |-> (sth - sh) \div 2,
          feather |-> 30 ]

cmd_gpu(v, r, f) ==
    [ enc |-> "h264_nvenc", input |-> v, filter |-> f,
      out |-> <<Ratios[r].label, v>> ]

cmd_cpu_nvenc_again(v, r, f) ==
    [ enc |-> "h264_nvenc", input |-> v, filter |-> f,
      out |-> <<Ratios[r].label, v>> ]

cmd_cpu(v, r, f) ==
    [ enc |-> "libx264", input |-> v, filter |-> f,
      out |-> <<Ratios[r].label, v>> ]

(* ================== gui: VideoWorker.run_ffmpeg_task ==================== *)
\* does the parsed value count as an advance
advances(current_frame, last) == current_frame # last

\* pct = min(100, int(current_frame * 100 / total_frames))
pct(current_frame, total_frames) ==
    Min(100, (current_frame * 100) \div total_frames)

stalled_at_20(i) == i > 20

\* the watchdog test
stalled(i) == i > WatchdogSecs

\* The output path after the engine runs of a unit.  The engine opens its
\* output (-y) while it runs: a run that ended well leaves the whole file, a
\* run that failed or was terminated leaves a partial file or none.  No
\* script removes the output path of a unit.
OutputAfter(ok) ==
    IF ok THEN {"complete"} ELSE {"partial", "absent"}

\* What VideoWorker.run does with the value run_ffmpeg_task returns.
\* outcome is one of ok, nonzero, stall, cancel; p is proc at the return.
AfterTask(outcome, p) ==
    IF attempt = "hw" /\ outcome # "ok"
    THEN \* the software attempt is launched
         /\ gpu_out' = outcome
         /\ unit_launches' =
              Append(unit_launches,
                     cmd_cpu(vi, ri, filter_str(raw[1], raw[2], ri)))
         /\ Popen("sw", p, "check", -1, -1)
         /\ idle' = 0
         /\ gap_seen' = FALSE
         /\ UNCHANGED << prog, last_unit, loopVars, is_running, cpu_out,
                         unit_reported,
                         completed_tasks, finished_signals, error_signals,
                         ffVars, qwVars, histVars >>
    ELSE \* the unit is logged as done and counted
         /\ gpu_out' = IF attempt = "hw" THEN outcome ELSE gpu_out
         /\ cpu_out' = IF attempt = "sw" THEN outcome ELSE cpu_out
         /\ unit_reported' = TRUE
         /\ completed_tasks' = completed_tasks + 1
         /\ Reap(p)
         /\ idle' = 0
         /\ gap_seen' = FALSE
         /\ ri' = ri + 1
         /\ pc' = "ratio"
         /\ \E o \in OutputAfter(outcome = "ok") :
              last_unit' = [failed |-> outcome # "ok", out |-> o]
         /\ UNCHANGED << prog, n_files, vi, raw, original_ratio, total_f,
                         is_running,
                         unit_launches, finished_signals, error_signals,
                         ffVars, qwVars, histVars >>

\* the cancel flag is tested at the top of each iteration
TaskCheck ==
    /\ prog = "gui" /\ tpc = "check"
    /\ IF ~is_running
       THEN AfterTask("cancel", [proc EXCEPT ![attempt] = "killed"])
       ELSE /\ tpc' = "read"
            /\ UNCHANGED << prog, last_unit, loopVars, attempt, proc, pipe,
                            last_frame_count, progress_out, guiVars, ffVars,
                            qwVars, histVars >>

\* readline returns a line, or '' at end of file
TaskRead ==
    /\ prog = "gui" /\ tpc = "read"
    /\ \/ /\ AtEof
          /\ AfterTask(IF proc[attempt] = "exit0" THEN "ok" ELSE "nonzero", proc)
       \/ /\ pipe # << >>
          /\ LET line == Head(pipe)
                 adv == line.tok /\ advances(line.n, last_frame_count)
                 idle1 == IF adv THEN 0 ELSE idle
             IN
             IF stalled(idle1)
             THEN AfterTask("stall", [proc EXCEPT ![attempt] = "killed"])
             ELSE /\ pipe' = Tail(pipe)
                  /\ tpc' = "check"
                  /\ last_frame_count' = IF adv THEN line.n ELSE last_frame_count
                  /\ idle' = idle1
                  /\ progress_out' = IF adv /\ total_f > 0
                                     THEN pct(line.n, total_f)
                                     ELSE progress_out
                  /\ UNCHANGED << prog, last_unit, loopVars, attempt, proc,
                                  is_running,
                                  gap_seen, unit_launches, gpu_out, cpu_out,
                                  unit_reported, completed_tasks,
                                  finished_signals, error_signals, ffVars,
                                  qwVars, histVars >>

\* the clock, while the supervisor sits in readline
Tick ==
    /\ prog = "gui" /\ Blocked
    /\ idle <= WatchdogSecs
    /\ idle' = idle + TickSecs
    /\ gap_seen' = (gap_seen \/ idle' > WatchdogSecs)
    /\ UNCHANGED << prog, last_unit, loopVars, childVars, is_running,
                    unit_launches,
                    gpu_out, cpu_out, unit_reported, completed_tasks,
                    finished_signals, error_signals, ffVars, qwVars,
                    histVars >>

(* ========================= gui: VideoWorker.run ========================= *)
\* total_f = int(meta_data.get('nb_frames', 0)): a missing field gives 0,
\* the string "N/A" makes int() raise ValueError
nb_frames_raises(nb) == nb = NA

GuiStart ==
    /\ prog = "gui" /\ pc = "start"
    /\ \E found \in BOOLEAN, n \in 0..NumFiles :
         IF ~found
         THEN \* ffmpeg.exe was not found
              /\ error_signals' = error_signals + 1
              /\ pc' = "done"
              /\ UNCHANGED << n_files, vi, finished_signals >>
         ELSE IF n = 0
         THEN \* no video in the directory
              /\ finished_signals' = finished_signals + 1
              /\ pc' = "done"
              /\ UNCHANGED << n_files, vi, error_signals >>
         ELSE /\ n_files' = n
              /\ vi' = 1
              /\ pc' = "file"
              /\ UNCHANGED << finished_signals, error_signals >>
    /\ UNCHANGED << prog, last_unit, ri, raw, original_ratio, total_f,
                    childVars, is_running, idle,
                    gap_seen, unit_launches, gpu_out, cpu_out, unit_reported,
                    completed_tasks, ffVars, qwVars, histVars >>

\* the head of the outer loop and the probe of the file
GuiFile ==
    /\ prog = "gui" /\ pc = "file"
    /\ IF vi > n_files \/ ~is_running
       THEN \* the loop is exhausted or left by break
            /\ finished_signals' = finished_signals + 1
            /\ pc' = "done"
            /\ UNCHANGED << n_files, vi, ri, raw, original_ratio, total_f,
                            error_signals,
                            histVars >>
       ELSE \/ \* the probe raises: the except clause of run
               /\ probed' = probed \cup {vi}
               /\ probe_failed' = probe_failed \cup {vi}
               /\ abort_at' = vi
               /\ na_file' = 0
               /\ error_signals' = error_signals + 1
               /\ pc' = "done"
               /\ UNCHANGED << n_files, vi, ri, raw, original_ratio, total_f,
                               finished_signals, launched, enc_failed,
                               recorded >>
            \/ \E meta_data \in Probes :
                 /\ probed' = probed \cup {vi}
                 /\ raw' = <<meta_data.w, meta_data.h>>
                 /\ UNCHANGED original_ratio
                 /\ na_file' = IF meta_data.nb \in {0, NA} THEN vi ELSE 0
                 /\ IF nb_frames_raises(meta_data.nb)
                    THEN \* ValueError: the except clause of run
                         /\ probe_failed' = probe_failed \cup {vi}
                         /\ abort_at' = vi
                         /\ error_signals' = error_signals + 1
                         /\ pc' = "done"
                         /\ UNCHANGED << ri, total_f, finished_signals >>
                    ELSE /\ total_f' = meta_data.nb
                         /\ ri' = 1
                         /\ pc' = "ratio"
                         /\ UNCHANGED << error_signals, finished_signals,
                                         probe_failed, abort_at >>
                 /\ UNCHANGED << n_files, vi, launched, enc_failed,
                                 recorded >>
    /\ UNCHANGED << prog, last_unit, childVars, is_running, idle, gap_seen,
                    unit_launches, gpu_out, cpu_out, unit_reported,
                    completed_tasks, ffVars, qwVars >>

\* the head of the inner loop up to the launch of the hardware attempt
GuiRatio ==
    /\ prog = "gui" /\ pc = "ratio"
    /\ IF ri > Len(Ratios) \/ ~is_running
       THEN \* the inner loop is exhausted or left by break
            /\ vi' = vi + 1
            /\ pc' = "file"
            /\ UNCHANGED << ri, childVars, idle, gap_seen, unit_launches,
                            gpu_out, cpu_out, unit_reported >>
       ELSE /\ unit_launches' =
                 << cmd_gpu(vi, ri, filter_str(raw[1], raw[2], ri)) >>
            /\ gpu_out' = "none"
            /\ cpu_out' = "none"
            /\ unit_reported' = FALSE
            /\ Popen("hw", NoProc, "check", -1, -1)
            /\ idle' = 0
            /\ gap_seen' = FALSE
            /\ pc' = "task"
            /\ UNCHANGED << vi, ri >>
    /\ last_unit' = NoUnit
    /\ UNCHANGED << prog, n_files, raw, original_ratio, total_f, is_running,
                    completed_tasks,
                    finished_signals, error_signals, ffVars, qwVars,
                    histVars >>

\* MainWindow.safe_exit sets the flag of a running worker
Cancel ==
    /\ prog = "gui" /\ pc # "done" /\ is_running
    /\ is_running' = FALSE
    /\ UNCHANGED << prog, last_unit, loopVars, childVars, idle, gap_seen,
                    unit_launches,
                    gpu_out, cpu_out, unit_reported, completed_tasks,
                    finished_signals, error_signals, ffVars, qwVars,
                    histVars >>

(* ============================ Video_Edit_FF ============================= *)
Abs(x) == IF x < 0 THEN 0 - x ELSE x

\* abs(w/h - a/b) < 0.01, in integers (h > 0)
Near(w, h, a, b) == Abs(b * w - a * h) * 100 < b * h

is_valid_aspect_ratio_9_16_only(width, height) ==
    height # 0 /\ Near(width, height, 9, 16)

\* is_valid_aspect_ratio: ratio is 0 when height is 0
is_valid_aspect_ratio(width, height) ==
    /\ height # 0
    /\ (Near(width, height, 9, 16) \/ Near(width, height, 16, 9))

\* what the probe of a file can do: answer, or raise one of these
ProbeEvents == { "ok", "CalledProcessError", "JSONDecodeError", "KeyError",
                 "ValueError", "IndexError" }

\* get_video_info: the exceptions its except clause names give None
get_video_info_catches(e) ==
    e \in { "CalledProcessError", "JSONDecodeError", "KeyError", "ValueError" }

process_video_result_uncaught(ev) ==
    IF ev = "exit0" THEN "True"
    ELSE IF ev = "exit1" THEN "False" ELSE "raise"

make_even_skipped(n) == n

\* process_video: n if n % 2 == 0 else n + 1
make_even(n) == IF n % 2 = 0 THEN n ELSE n + 1

\* process_video: the canvas (new_width, new_height) for a source of
\* width x height; the branch is width / height > 9 / 16
new_canvas(width, height) ==
    IF width * 16 > 9 * height
    THEN << make_even(width), make_even((width * 16) \div 9) >>
    ELSE << make_even((height * 9) \div 16), make_even(height) >>

\* get_video_info: float(stream_info.get('duration', 0)); a missing field
\* gives 0.0, the string "N/A" makes float() raise ValueError
duration_raises(d) == d = NA

\* process_video: True on exit code 0, False on a non-zero code and on any
\* exception raised inside its try block
process_video_result(ev) ==
    IF ev = "exit0" THEN "True" ELSE "False"

main_counts_success_only(res) ==
    IF res = "True" THEN "processed" ELSE "none"

\* main: the counter the loop body adds 1 to for the value process_video
\* returned (none when it raised)
main_counts(res) ==
    IF res = "True" THEN "processed"
    ELSE IF res = "False" THEN "error" ELSE "none"

\* main: the loop body after process_video has returned (or raised)
FFAfter(ev) ==
    LET res == process_video_result(ev) IN
    /\ Reap(proc)
    /\ launched' = launched \cup { <<vi, 1>> }
    /\ enc_failed' = IF ev = "exit0" THEN enc_failed
                     ELSE enc_failed \cup { <<vi, 1>> }
    /\ processed_count' = IF main_counts(res) = "processed"
                          THEN processed_count + 1 ELSE processed_count
    /\ error_count' = IF main_counts(res) = "error"
                      THEN error_count + 1 ELSE error_count
    /\ recorded' = IF res = "False" THEN recorded \cup { <<vi, 1>> }
                   ELSE recorded
    /\ abort_at' = IF res = "raise" THEN vi ELSE abort_at
    /\ UNCHANGED na_file
    /\ pc' = IF res = "raise" THEN "done" ELSE "file"
    /\ vi' = IF res = "raise" THEN vi ELSE vi + 1
    /\ \E o \in OutputAfter(ev = "exit0") :
         last_unit' = [failed |-> ev # "exit0", out |-> o]
    /\ UNCHANGED << prog, n_files, ri, raw, original_ratio, total_f, guiVars,
                    skipped_count,
                    qwVars >>

FFStart ==
    /\ prog = "ff" /\ pc = "start"
    /\ \E check_ffmpeg \in BOOLEAN, n \in 0..NumFiles :
         IF ~check_ffmpeg \/ n = 0
         THEN /\ pc' = "done"
              /\ UNCHANGED << n_files, vi >>
         ELSE /\ n_files' = n
              /\ vi' = 1
              /\ pc' = "file"
    /\ UNCHANGED << prog, last_unit, ri, raw, original_ratio, total_f,
                    childVars, guiVars, ffVars,
                    qwVars, histVars >>

\* main: one iteration of the loop up to the launch of the engine
FFFile ==
    /\ prog = "ff" /\ pc = "file"
    /\ IF vi > n_files
       THEN \* the summary
            /\ pc' = "done"
            /\ UNCHANGED << n_files, vi, ri, raw, original_ratio, total_f,
                            childVars, ffVars,
                            histVars >>
       ELSE \E e \in ProbeEvents :
            /\ probed' = probed \cup {vi}
            /\ IF e # "ok"
               THEN /\ probe_failed' = probe_failed \cup {vi}
                    /\ na_file' = 0
                    /\ IF get_video_info_catches(e)
                       THEN \* video_info is None: counted, next file
                            /\ error_count' = error_count + 1
                            /\ vi' = vi + 1
                            /\ UNCHANGED << pc, abort_at >>
                       ELSE \* the exception leaves main
                            /\ abort_at' = vi
                            /\ pc' = "done"
                            /\ UNCHANGED << vi, error_count >>
                    /\ UNCHANGED << n_files, ri, raw, original_ratio, total_f,
                                    childVars,
                                    processed_count, skipped_count, launched,
                                    enc_failed, recorded >>
               ELSE \E info \in FFProbes :
                    /\ na_file' = IF info.duration \in {0, NA} THEN vi ELSE 0
                    /\ UNCHANGED original_ratio
                    /\ raw' = IF duration_raises(info.duration) THEN raw
                              ELSE <<info.w, info.h>>
                    /\ IF duration_raises(info.duration)
                       THEN \* ValueError is caught: video_info is None
                            /\ probe_failed' = probe_failed \cup {vi}
                            /\ error_count' = error_count + 1
                            /\ vi' = vi + 1
                            /\ UNCHANGED << pc, childVars, processed_count,
                                            skipped_count, launched,
                                            abort_at >>
                       ELSE IF info.h = 0
                       THEN \* width/height in the log line raises
                            /\ probe_failed' = probe_failed \cup {vi}
                            /\ abort_at' = vi
                            /\ pc' = "done"
                            /\ UNCHANGED << vi, childVars, ffVars, launched >>
                       ELSE IF is_valid_aspect_ratio(info.w, info.h)
                       THEN /\ skipped_count' = skipped_count + 1
                            /\ vi' = vi + 1
                            /\ UNCHANGED << pc, childVars, processed_count,
                                            error_count, probe_failed,
                                            launched, abort_at >>
                       ELSE \* process_video up to its read loop
                            /\ Popen("sw", NoProc, "read", -1, -1)
                            /\ launched' = launched \cup { <<vi, 1>> }
                            /\ pc' = "task"
                            /\ UNCHANGED << vi, ffVars, probe_failed,
                                            abort_at >>
                    /\ UNCHANGED << n_files, ri, total_f, enc_failed,
                                    recorded >>
    /\ last_unit' = NoUnit
    /\ UNCHANGED << prog, guiVars, qwVars >>

\* process_video: the read loop on the engine's stderr
FFRead ==
    /\ prog = "ff" /\ pc = "task" /\ tpc = "read"
    /\ \/ /\ AtEof
          /\ FFAfter(proc[attempt])
          /\ UNCHANGED << probed, probe_failed >>
       \/ /\ pipe # << >>
          /\ pipe' = Tail(pipe)
          /\ UNCHANGED << prog, last_unit, loopVars, attempt, proc, tpc,
                          last_frame_count, progress_out, guiVars, ffVars,
                          qwVars, histVars >>

\* process_video: an exception inside the try block while the engine runs
FFRaise ==
    /\ prog = "ff" /\ pc = "task" /\ tpc = "read"
    /\ proc[attempt] = "alive"
    /\ FFAfter("raised")
    /\ UNCHANGED << probed, probe_failed >>

(* ===================== ve_wallpaper: process_file ======================= *)
\* get_video_meta: int(frames) if frames and frames != 'N/A' else 0
frames_or_zero(frames) == IF frames = 0 \/ frames = NA THEN 0 ELSE frames

WallStart ==
    /\ prog = "wall" /\ pc = "start"
    /\ \E n \in 0..NumFiles :
         IF n = 0
         THEN /\ pc' = "done"
              /\ UNCHANGED << n_files, vi >>
         ELSE /\ n_files' = n
              /\ vi' = 1
              /\ pc' = "file"
    /\ UNCHANGED << prog, last_unit, ri, raw, original_ratio, total_f,
                    childVars, guiVars, ffVars,
                    qwVars, histVars >>

\* run and the head of process_file: get_video_meta
WallFile ==
    /\ prog = "wall" /\ pc = "file"
    /\ IF vi > n_files
       THEN /\ pc' = "done"
            /\ UNCHANGED << n_files, vi, ri, raw, original_ratio, total_f,
                            histVars >>
       ELSE /\ probed' = probed \cup {vi}
            /\ \/ \* get_video_meta returns None
                  /\ probe_failed' = probe_failed \cup {vi}
                  /\ na_file' = 0
                  /\ vi' = vi + 1
                  /\ UNCHANGED << pc, ri, raw, original_ratio, total_f >>
               \/ \E meta \in Probes :
                    /\ raw' = <<meta.w, meta.h>>
                    /\ UNCHANGED original_ratio
                    /\ na_file' = IF meta.nb \in {0, NA} THEN vi ELSE 0
                    /\ total_f' = frames_or_zero(meta.nb)
                    /\ ri' = 1
                    /\ pc' = "ratio"
                    /\ UNCHANGED << vi, probe_failed >>
            /\ UNCHANGED << n_files, launched, enc_failed, recorded,
                            abort_at >>
    /\ UNCHANGED << prog, last_unit, childVars, guiVars, ffVars, qwVars >>

\* process_file: the head of the loop over the presets, up to Popen
WallRatio ==
    /\ prog = "wall" /\ pc = "ratio"
    /\ IF ri > Len(Ratios)
       THEN /\ vi' = vi + 1
            /\ pc' = "file"
            /\ UNCHANGED << ri, childVars, launched >>
       ELSE /\ Popen("hw", NoProc, "read", 0, 0)
            /\ launched' = launched \cup { <<vi, ri>> }
            /\ pc' = "task"
            /\ UNCHANGED << vi, ri >>
    /\ UNCHANGED << prog, last_unit, n_files, raw, original_ratio, total_f,
                    guiVars, ffVars, qwVars,
                    probed, probe_failed, enc_failed, recorded, abort_at, na_file >>

\* does process_file log the run as failed
wall_logs_error(returncode) == returncode # "exit0"

\* process_file: the read loop, and the return code test after it
WallRead ==
    /\ prog = "wall" /\ pc = "task" /\ tpc = "read"
    /\ \/ /\ AtEof
          /\ enc_failed' = IF proc[attempt] = "exit0" THEN enc_failed
                           ELSE enc_failed \cup { <<vi, ri>> }
          /\ recorded' = IF wall_logs_error(proc[attempt])
                         THEN recorded \cup { <<vi, ri>> } ELSE recorded
          /\ Reap(proc)
          /\ ri' = ri + 1
          /\ pc' = "ratio"
          /\ UNCHANGED << n_files, vi, raw, original_ratio, total_f, probed,
                          probe_failed,
                          launched, abort_at, na_file >>
       \/ /\ pipe # << >>
          /\ LET line == Head(pipe) IN
             /\ pipe' = Tail(pipe)
             /\ progress_out' = IF line.tok
                                THEN progress_out + (line.n - last_frame_count)
                                ELSE progress_out
             /\ last_frame_count' = IF line.tok THEN line.n
                                    ELSE last_frame_count
          /\ UNCHANGED << loopVars, attempt, proc, tpc, histVars >>
    /\ UNCHANGED << prog, last_unit, guiVars, ffVars, qwVars >>

(* ======================== VE_QW_FInal_prefect =========================== *)
\* is_target_ratio, for the display ratio w/h
is_target_ratio(w, h) ==
    Near(w, h, 9, 16) \/ Near(w, h, 9, 18) \/ Near(w, h, 9, 15)

\* get_video_info: sar_ratio is 1.0 when the field is missing, is "0:1",
\* does not parse (ValueError) or has the denominator 0 (ZeroDivisionError)
sar_ratio(info) ==
    IF info.sar_num = NA \/ info.sar_den = NA \/ info.sar_den = 0
          \/ (info.sar_num = 0 /\ info.sar_den = 1)
    THEN <<1, 1>> ELSE << info.sar_num, info.sar_den >>

\* get_video_info: the 'duration' entry; 0 when format.duration is missing
\* or "N/A"
info_duration(info) == IF info.duration = NA THEN 0 ELSE info.duration

\* the probe result holds a field that is missing or "N/A"
has_na(info) == NA \in {info.sar_num, info.sar_den, info.duration}

\* get_video_info: display_ratio = width * sar_ratio / height, as a fraction
display_ratio(info) ==
    << info.w * sar_ratio(info)[1], info.h * sar_ratio(info)[2] >>

needs_rotation_any_landscape(w, h) == h <= w

\* process_video: needs_rotation = 1.0 <= original_ratio <= 16/9, for the
\* ratio w/h
needs_rotation(w, h) == h <= w /\ 9 * w <= 16 * h

\* ffprobe on the file written by transpose=1: width and height change places
rotated_dims(w, h) == <<h, w>>

\* create_feathered_foreground: the size of the scaled foreground and its
\* place on the canvas, for a source of orig_w x orig_h pixels whose display
\* ratio is ratio[1]/ratio[2]; the branch is original_ratio > TARGET_RATIO
foreground(orig_w, orig_h, ratio) ==
    IF ratio[1] * 16 > 9 * ratio[2]
    THEN LET scaled_height == (orig_h * target_width) \div orig_w IN
         [ scaled_width |-> target_width, scaled_height |-> scaled_height,
           pad_x |-> 0, pad_y |-> (target_height - scaled_height) \div 2 ]
    ELSE LET scaled_width == (orig_w * target_height) \div orig_h IN
         [ scaled_width |-> scaled_width, scaled_height |-> target_height,
           pad_x |-> (target_width - scaled_width) \div 2, pad_y |-> 0 ]

\* the names of the scratch files, from the clock second sec
trimmed_name(sec, file) == Path("trimmed", sec, file, -1)
rotated_name(sec, file, inner) == Path("rotated", sec, file, inner)
temp_fg_name(sec) == Path("temp_fg", sec, 0, -1)
temp_fg_feathered_name(sec) == Path("temp_fg_feathered", sec, 0, -1)
temp_fg_blurred_name(sec) == Path("temp_fg_blurred", sec, 0, -1)

\* an engine run writing path p: the file exists afterwards when the run
\* succeeded, and may or may not exist when it failed
Written(s, p, ok, left) == IF ok \/ left THEN s \cup {p} ELSE s

\* process_video returns (result: True, False) with the scratch directory s
\* and its locals tp, rp; then the finally clause of process_video and the
\* loop body of process_all_videos.  failed: an engine run of the unit failed;
\* out: the state of the unit's output path.
\* The locals of process_video (sizes, ratio, paths) are dead after it.
QwReturn(result, s, tp, rp, failed, out) ==
    /\ scratch' = s \ {tp, rp}
    /\ temp_trimmed_path' = NoPath
    /\ temp_rotated_path' = NoPath
    /\ temp_fg_path' = NoPath
    /\ fg' = NoFg
    /\ temp_final_path' = NoPath
    /\ input_path' = "orig"
    /\ raw' = <<0, 0>>
    /\ original_ratio' = <<0, 1>>
    /\ duration' = 0
    /\ success_count' = IF result = "True" THEN success_count + 1
                        ELSE success_count
    /\ recorded' = IF result = "True" THEN recorded
                   ELSE recorded \cup { <<vi, 1>> }
    /\ enc_failed' = IF failed THEN enc_failed \cup { <<vi, 1>> }
                     ELSE enc_failed
    /\ vi' = vi + 1
    /\ pc' = "file"
    /\ last_unit' = [failed |-> result # "True", out |-> out]
    /\ UNCHANGED << prog, n_files, ri, total_f, childVars, guiVars, ffVars,
                    clock, temp_dir, abort_at >>

\* the stage of process_video that follows the trim stage
AfterTrim(w, h) == IF needs_rotation(w, h) THEN "rotate" ELSE "scale"

\* what setup_environment and get_video_files can do
SetupEvents == { "ok", "sys.exit", "Exception" }

\* main: setup_environment, and the scan of process_all_videos
QwStart ==
    /\ prog = "qw" /\ pc = "start"
    /\ \E ev \in SetupEvents, n \in 0..NumFiles :
         IF ev = "Exception"
         THEN \* the except clause of main: rmtree, sys.exit(1)
              /\ temp_dir' = FALSE
              /\ pc' = "exited"
              /\ UNCHANGED << n_files, vi >>
         ELSE IF ev = "sys.exit" \/ n = 0
         THEN \* SystemExit passes main; no file: process_all_videos returns
              /\ pc' = "done"
              /\ UNCHANGED << n_files, vi, temp_dir >>
         ELSE /\ n_files' = n
              /\ vi' = 1
              /\ pc' = "file"
              /\ UNCHANGED temp_dir
    /\ UNCHANGED << prog, last_unit, ri, raw, original_ratio, total_f,
                    childVars, guiVars, ffVars,
                    success_count, clock, duration, input_path,
                    temp_trimmed_path, temp_rotated_path, temp_fg_path, fg,
                    temp_final_path, scratch, temp_uses, histVars >>

\* process_all_videos: the head of the loop; process_single_video; and
\* process_video up to its first engine run
QwFile ==
    /\ prog = "qw" /\ pc = "file"
    /\ IF vi > n_files
       THEN \* the summary and the final shutil.rmtree(TEMP_DIR)
            /\ scratch' = {}
            /\ temp_dir' = FALSE
            /\ pc' = "done"
            /\ UNCHANGED << prog, last_unit, n_files, vi, ri, raw,
                            original_ratio, total_f, childVars,
                            guiVars, ffVars, success_count, clock, duration,
                            input_path, temp_trimmed_path, temp_rotated_path,
                            temp_fg_path, fg, temp_final_path, temp_uses,
                            histVars >>
       ELSE /\ probed' = probed \cup {vi}
            /\ \/ \* get_video_info gives {} in process_single_video
                  /\ probe_failed' = probe_failed \cup {vi}
                  /\ na_file' = 0
                  /\ QwReturn("False", scratch, NoPath, NoPath, FALSE, "absent")
                  /\ UNCHANGED << temp_uses, launched >>
               \/ \E info \in QwProbes :
                    IF is_target_ratio(display_ratio(info)[1],
                                       display_ratio(info)[2])
                    THEN \* skipped: process_single_video returns True
                         /\ QwReturn("True", scratch, NoPath, NoPath, FALSE, "absent")
                         /\ na_file' = IF has_na(info) THEN vi ELSE 0
                         /\ UNCHANGED << temp_uses,
                                         launched,
                                         probe_failed >>
                    ELSE \/ \* get_video_info gives {} in process_video
                            /\ probe_failed' = probe_failed \cup {vi}
                            /\ na_file' = 0
                            /\ QwReturn("False", scratch, NoPath, NoPath, FALSE, "absent")
                            /\ UNCHANGED << temp_uses,
                                            launched >>
                         \/ /\ raw' = <<info.w, info.h>>
                            /\ original_ratio' = display_ratio(info)
                            /\ duration' = info_duration(info)
                            /\ na_file' = IF has_na(info) THEN vi ELSE 0
                            /\ input_path' = "orig"
                            /\ pc' = IF info_duration(info) > MAX_DURATION
                                     THEN "trim"
                                     ELSE AfterTrim(display_ratio(info)[1],
                                                    display_ratio(info)[2])
                            /\ launched' = launched \cup { <<vi, 1>> }
                            /\ last_unit' = NoUnit
                            /\ UNCHANGED << prog, n_files, vi, ri, total_f,
                                            childVars, guiVars, ffVars,
                                            success_count, clock,
                                            temp_trimmed_path,
                                            temp_rotated_path, temp_fg_path, fg,
                                            temp_final_path, scratch,
                                            temp_dir, temp_uses, probe_failed,
                                            enc_failed, recorded, abort_at >>

\* process_video: the trim stage (trim_video and the probe after it)
QwTrim ==
    /\ prog = "qw" /\ pc = "trim"
    /\ LET p == trimmed_name(clock, vi) IN
       /\ temp_uses' = temp_uses \cup { <<vi, p>> }
       /\ \E ok \in BOOLEAN, left \in BOOLEAN, reprobe \in BOOLEAN :
            IF ok /\ ~reprobe
            THEN \* the trimmed file cannot be probed: return False
                 /\ QwReturn("False", Written(scratch, p, ok, left), p,
                             NoPath, FALSE, "absent")
                 /\ UNCHANGED << probed, probe_failed,
                                 launched, na_file >>
            ELSE /\ scratch' = Written(scratch, p, ok, left)
                 /\ temp_trimmed_path' = p
                 /\ input_path' = IF ok THEN "trimmed" ELSE "orig"
                 /\ duration' = IF ok THEN TRIM_DURATION ELSE duration
                 /\ pc' = AfterTrim(original_ratio[1], original_ratio[2])
                 /\ UNCHANGED << prog, last_unit, n_files, vi, ri, raw,
                                 original_ratio, total_f,
                                 childVars, guiVars, ffVars, success_count,
                                 clock, temp_dir, temp_rotated_path,
                                 temp_fg_path, fg,
                                 temp_final_path, histVars >>

\* process_video: the rotation stage (transpose and the probe after it)
QwRotate ==
    /\ prog = "qw" /\ pc = "rotate"
    /\ LET p == rotated_name(clock, vi,
                             IF input_path = "trimmed"
                             THEN temp_trimmed_path.sec ELSE -1)
       IN
       /\ temp_uses' = temp_uses \cup { <<vi, p>> }
       /\ \E ok \in BOOLEAN, left \in BOOLEAN, reprobe \in BOOLEAN :
            IF ~ok \/ ~reprobe
            THEN \* ffmpeg.Error, or the rotated file cannot be probed
                 /\ QwReturn("False", Written(scratch, p, ok, left),
                             temp_trimmed_path, p, ~ok, "absent")
                 /\ UNCHANGED << probed, probe_failed,
                                 launched, na_file >>
            ELSE /\ scratch' = scratch \cup {p}
                 /\ temp_rotated_path' = p
                 /\ input_path' = "rotated"
                 /\ raw' = rotated_dims(raw[1], raw[2])
                 /\ original_ratio' =
                      rotated_dims(original_ratio[1], original_ratio[2])
                 /\ pc' = "scale"
                 /\ UNCHANGED << prog, last_unit, n_files, vi, ri, total_f,
                                 childVars,
                                 guiVars, ffVars, success_count, temp_dir,
                                 clock,
                                 duration, temp_trimmed_path, temp_fg_path, fg,
                                 temp_final_path, histVars >>

\* create_feathered_foreground: the scaled foreground is written
QwScale ==
    /\ prog = "qw" /\ pc = "scale"
    /\ LET p == temp_fg_name(clock) IN
       /\ temp_uses' = temp_uses \cup { <<vi, p>> }
       /\ \E ok \in BOOLEAN :
            IF ~ok
            THEN \* ffmpeg.Error: the finally clause unlinks temp_fg_path
                 /\ QwReturn("False", scratch \ {p}, temp_trimmed_path,
                             temp_rotated_path, TRUE, "absent")
                 /\ UNCHANGED << probed, probe_failed,
                                 launched, na_file >>
            ELSE /\ scratch' = scratch \cup {p}
                 /\ temp_fg_path' = p
                 /\ fg' = foreground(raw[1], raw[2], original_ratio)
                 /\ pc' = "featherA"
                 /\ UNCHANGED << prog, last_unit, n_files, vi, ri, raw,
                                 original_ratio, total_f,
                                 childVars, guiVars, ffVars, success_count,
                                 clock, temp_dir, duration, input_path,
                                 temp_trimmed_path, temp_rotated_path,
                                 temp_final_path, histVars >>

after_method_a_always_b(ok) == "featherB"

\* create_feathered_foreground: where the inner try leads: the return of the
\* first method, or the except clause holding the second method
after_method_a(ok) == IF ok THEN "compose" ELSE "featherB"

\* create_feathered_foreground: the geq alpha ramp (first method)
QwFeatherA ==
    /\ prog = "qw" /\ pc = "featherA"
    /\ LET p == temp_fg_feathered_name(clock) IN
       /\ temp_uses' = temp_uses \cup { <<vi, p>> }
       /\ \E ok \in BOOLEAN, left \in BOOLEAN :
            /\ scratch' = IF ok THEN (scratch \cup {p}) \ {temp_fg_path}
                          ELSE Written(scratch, p, ok, left)
            /\ temp_final_path' = IF ok THEN p ELSE temp_final_path
            /\ pc' = after_method_a(ok)
       /\ UNCHANGED << prog, last_unit, n_files, vi, ri, raw, original_ratio,
                       total_f, childVars,
                       guiVars, ffVars, success_count, temp_dir, clock,
                       duration,
                       input_path, temp_trimmed_path, temp_rotated_path,
                       temp_fg_path, fg, histVars >>

\* create_feathered_foreground: the boxblur fallback (second method)
QwFeatherB ==
    /\ prog = "qw" /\ pc = "featherB"
    /\ LET p == temp_fg_blurred_name(clock) IN
       /\ temp_uses' = temp_uses \cup { <<vi, p>> }
       /\ \E ok \in BOOLEAN, left \in BOOLEAN :
            IF ~ok
            THEN \* the exception leaves create_feathered_foreground
                 /\ QwReturn("False",
                             Written(scratch, p, ok, left) \ {temp_fg_path},
                             temp_trimmed_path, temp_rotated_path, TRUE, "absent")
                 /\ UNCHANGED << probed, probe_failed,
                                 launched, na_file >>
            ELSE /\ scratch' = (scratch \cup {p}) \ {temp_fg_path}
                 /\ temp_final_path' = p
                 /\ pc' = "compose"
                 /\ UNCHANGED << prog, last_unit, n_files, vi, ri, raw,
                                 original_ratio, total_f,
                                 childVars, guiVars, ffVars, success_count,
                                 clock, temp_dir, duration, input_path,
                                 temp_trimmed_path, temp_rotated_path,
                                 temp_fg_path, fg, histVars >>

\* what the final overlay run can do: write the output, write an output of
\* 0 bytes, raise ffmpeg.Error, or end without an output file
ComposeEvents == { "ok", "ok_zero_size", "ffmpeg.Error", "no_output" }

\* process_video: output_path.exists() after a run that raised nothing.  The
\* size of the output is looked at only for a warning (under 0.1 MB).
output_exists(ev) == ev \in {"ok", "ok_zero_size"}

\* process_video: the final overlay run and the checks after it
QwCompose ==
    /\ prog = "qw" /\ pc = "compose"
    /\ \E ev \in ComposeEvents :
         IF ev = "ffmpeg.Error"
         THEN \E o \in OutputAfter(FALSE) :
                QwReturn("False", scratch, temp_trimmed_path,
                         temp_rotated_path, TRUE, o)
         ELSE IF output_exists(ev)
         THEN \* temp_fg_path is unlinked, return True
              QwReturn("True", scratch \ {temp_final_path},
                       temp_trimmed_path, temp_rotated_path, FALSE,
                       IF ev = "ok" THEN "complete" ELSE "empty")
         ELSE \* the output was not created: return False
              QwReturn("False", scratch, temp_trimmed_path,
                       temp_rotated_path, FALSE, "absent")
    /\ UNCHANGED << temp_uses, probed, probe_failed,
                    launched, na_file >>

\* int(time.time()) moves on between two steps of the batch; a name made
\* in an earlier second cannot be made again
QwTick ==
    /\ prog = "qw" /\ pc \notin {"start", "done", "exited"}
    /\ clock < MaxClock
    /\ clock' = clock + 1
    /\ temp_uses' = {}
    /\ UNCHANGED << prog, last_unit, loopVars, childVars, guiVars, ffVars,
                    success_count, duration, input_path, temp_trimmed_path,
                    temp_rotated_path, temp_fg_path, fg, temp_final_path,
                    scratch,
                    temp_dir, histVars >>

\* KeyboardInterrupt while a file is handled: the finally clause of
\* process_video, then the except clause of main (rmtree, sys.exit(1))
QwInterrupt ==
    /\ prog = "qw" /\ pc \notin {"start", "done", "exited"}
    /\ vi <= n_files
    /\ scratch' = {}
    /\ temp_dir' = FALSE
    /\ abort_at' = vi
    /\ pc' = "exited"
    /\ UNCHANGED << prog, last_unit, n_files, vi, ri, raw, original_ratio,
                    total_f, childVars, guiVars,
                    ffVars, success_count, clock, duration, input_path,
                    temp_trimmed_path, temp_rotated_path, temp_fg_path, fg,
                    temp_final_path, temp_uses, probed, probe_failed,
                    launched, enc_failed, recorded, na_file >>

\* The interpreter shuts down.  FFmpegManager.__del__ removes the directory,
\* but Python does not promise to call __del__ for an object that is alive
\* when the interpreter exits: either outcome is possible.
QwExit ==
    /\ prog = "qw" /\ pc = "done"
    /\ \E del_runs \in BOOLEAN :
         /\ temp_dir' = (temp_dir /\ ~del_runs)
         /\ scratch' = IF del_runs THEN {} ELSE scratch
    /\ pc' = "exited"
    /\ UNCHANGED << prog, last_unit, n_files, vi, ri, raw, original_ratio,
                    total_f, childVars, guiVars,
                    ffVars, success_count, clock, duration, input_path,
                    temp_trimmed_path, temp_rotated_path, temp_fg_path, fg,
                    temp_final_path, temp_uses, histVars >>

GuiStep == GuiStart \/ GuiFile \/ GuiRatio \/ TaskCheck \/ TaskRead

Next ==
    \/ GuiStart
    \/ GuiFile
    \/ GuiRatio
    \/ TaskCheck
    \/ TaskRead
    \/ Tick
    \/ Cancel
    \/ ChildWrite
    \/ ChildExit
    \/ FFStart
    \/ FFFile
    \/ FFRead
    \/ FFRaise
    \/ WallStart
    \/ WallFile
    \/ WallRatio
    \/ WallRead
    \/ QwStart
    \/ QwFile
    \/ QwTrim
    \/ QwRotate
    \/ QwScale
    \/ QwFeatherA
    \/ QwFeatherB
    \/ QwCompose
    \/ QwTick
    \/ QwInterrupt
    \/ QwExit

Spec == Init /\ [][Next]_vars

\* The steps of the supervisors that a scheduler always takes when they are
\* possible; the engine and a raised exception are under no such obligation.
FairSpec ==
    /\ Spec
    /\ WF_vars(GuiStep)
    /\ WF_vars(Tick)
    /\ WF_vars(FFRead)
    /\ WF_vars(WallRead)

(* ============================== properties ============================== *)
\* a call of run_ffmpeg_task returns in this step
TaskReturns == prog = "gui" /\ attempt # "none" /\ attempt' # attempt

\* the outcome of the call that returns in this step
ReturnedOutcome == IF attempt = "hw" THEN gpu_out' ELSE cpu_out'

\* C1: a call of run_ffmpeg_task during which more than 25 seconds passed
\* without an advance of the frame counter (and which was not cancelled)
\* returns the stall outcome with the child terminated.
C1_StallWatchdog ==
    [][ (TaskReturns /\ gap_seen /\ is_running)
            => (ReturnedOutcome = "stall" /\ proc'[attempt] = "killed") ]_vars

\* C2: the first launch of a unit uses h264_nvenc; a failed hardware attempt
\* (non-zero exit or stall) is followed by exactly one launch with libx264 on
\* the same input, filter graph and output; a unit never has more than two
\* launches.
C2_HwSwFallback ==
    prog = "gui" =>
      /\ Len(unit_launches) <= 2
      /\ Len(unit_launches) >= 1 => unit_launches[1].enc = "h264_nvenc"
      /\ pc = "task" =>
           /\ Len(unit_launches) >= 1
           /\ unit_launches[1] =
                cmd_gpu(vi, ri, filter_str(raw[1], raw[2], ri))
           /\ Len(unit_launches) = (IF attempt = "hw" THEN 1 ELSE 2)
      /\ Len(unit_launches) = 2 =>
           /\ unit_launches[2].enc = "libx264"
           /\ unit_launches[2].input = unit_launches[1].input
           /\ unit_launches[2].filter = unit_launches[1].filter
           /\ unit_launches[2].out = unit_launches[1].out
           /\ gpu_out \notin {"none", "ok"}
      /\ gpu_out \in {"nonzero", "stall"} => Len(unit_launches) = 2
      /\ gpu_out = "ok" => Len(unit_launches) = 1

\* C2 witness: the hardware attempt stalled and the software attempt of the
\* same unit was launched and ended
C2_Witness ==
    /\ prog = "gui"
    /\ gpu_out = "stall"
    /\ Len(unit_launches) = 2
    /\ cpu_out = "ok"

\* C3: a unit whose hardware attempt and software attempt both failed is not
\* logged as done and not counted in completed_tasks.
C3_BothFailedNotReported ==
    ~ ( /\ prog = "gui"
        /\ unit_reported
        /\ gpu_out \in {"nonzero", "stall"}
        /\ cpu_out \in {"nonzero", "stall"} )

\* C4: the read loop never blocks indefinitely: whatever the child does, the
\* supervisor is not blocked in readline from some point on for ever.
C4_ReadLoopNeverBlocksForever == []<>(~Blocked)

\* C5: once the cancel flag is cleared the worker thread finishes, so the
\* wait of safe_exit completes.
C5_CancelledWorkerFinishes == (prog = "gui" /\ ~is_running) ~> (pc = "done")

\* C6: within one engine run the frame counter kept by the read loop and the
\* progress value it delivers never decrease.
C6_ProgressMonotone ==
    [][ (prog \in {"gui", "wall"} /\ attempt # "none" /\ attempt' = attempt)
            => (/\ last_frame_count' >= last_frame_count
                /\ progress_out' >= progress_out) ]_vars

C8_ProbeFailureIsolated ==
    (pc = "done" /\ is_running /\ probe_failed # {}) => probed = 1..n_files

\* C9: when process_video has returned and the loop is at the next file, no
\* scratch file of an earlier unit exists.
C9_ScratchEmptyBetweenUnits ==
    (prog = "qw" /\ pc = "file") => scratch = {}

\* C10: a scratch path is named by one unit only.
C10_TempNamesUnique ==
    \A a \in temp_uses : \A b \in temp_uses : a[2] = b[2] => a[1] = b[1]

\* C11: when the qw program has ended (normal completion, no file found,
\* error or interrupt) the directory temp_processing does not exist.
C11_ScratchDirPurgedAtExit == (prog = "qw" /\ pc = "exited") => ~temp_dir

\* C12: a unit that ended in failure (gui, ff, qw) has left no partial file
\* at its output path when the batch moves on.
C12_NoPartialOutputAfterFailure ==
    (prog \in {"gui", "ff", "qw"} /\ last_unit.failed)
        => last_unit.out # "partial"

\* C13: a unit whose final run reported success but wrote an output of
\* 0 bytes has been marked failed: it is recorded as failed and was not
\* counted in success_count.
C13_ZeroSizeOutputFails ==
    (prog = "qw" /\ last_unit.out = "empty")
        => (last_unit.failed /\ <<vi - 1, 1>> \in recorded)

\* C14: in Video_Edit_FF.main the three counters add up to the number of
\* files whose iteration is over, and at the summary to the number of files
\* discovered.
C14_CountersPartition ==
    prog = "ff" =>
      /\ pc \in {"file", "task"} =>
           processed_count + skipped_count + error_count = vi - 1
      /\ (pc = "done" /\ abort_at = 0) =>
           processed_count + skipped_count + error_count = n_files

\* C14 witness: the summary of a batch with a processed file and a failed one
C14_Witness ==
    /\ prog = "ff" /\ pc = "done" /\ abort_at = 0
    /\ processed_count >= 1
    /\ error_count >= 1
    /\ processed_count + skipped_count + error_count = n_files

\* the ratio w/h is within 0.01 of a/b
WithinTolerance(w, h, a, b) == Abs(b * w - a * h) * 100 < b * h

\* C15: a source within 0.01 of 9/16 (and, in Video_Edit_FF, of 16/9) is
\* classified as already in the target ratio, 1920x1080 included; the batch
\* launches processing only for a source that is not within the tolerance,
\* and the step that skips a file runs no engine, names no scratch file and
\* leaves no output.
C15_SkipClassification ==
    /\ [](pc = "start" =>
            /\ \A w \in 1..MaxDim : \A h \in 1..MaxDim :
                 /\ WithinTolerance(w, h, 9, 16) =>
                      (is_target_ratio(w, h) /\ is_valid_aspect_ratio(w, h))
                 /\ WithinTolerance(w, h, 16, 9) =>
                      is_valid_aspect_ratio(w, h)
            /\ is_valid_aspect_ratio(1920, 1080))
    /\ [][ /\ (prog = "ff" /\ pc = "file" /\ pc' = "task") =>
                ~ ( \/ WithinTolerance(raw'[1], raw'[2], 9, 16)
                    \/ WithinTolerance(raw'[1], raw'[2], 16, 9) )
           /\ (prog = "ff" /\ skipped_count' # skipped_count) =>
                /\ launched' = launched
                /\ attempt' = "none"
                /\ pc' = "file"
                /\ last_unit'.out = "absent"
           /\ (prog = "qw" /\ pc = "file" /\ launched' # launched) =>
                ~ WithinTolerance(original_ratio'[1], original_ratio'[2],
                                  9, 16)
           /\ (prog = "qw" /\ pc = "file"
                   /\ success_count' # success_count) =>
                /\ launched' = launched
                /\ temp_uses' = temp_uses
                /\ scratch' = scratch
                /\ pc' = "file"
                /\ last_unit'.out = "absent" ]_vars

\* C15 witness: Video_Edit_FF has skipped a 1920x1080 file
C15_Witness ==
    /\ prog = "ff" /\ pc = "file" /\ vi = 2
    /\ raw = <<1920, 1080>>
    /\ skipped_count = 1
    /\ launched = {}

\* 1.0 <= num/den <= 16/9
InRotationRange(num, den) == den <= num /\ 9 * num <= 16 * den

\* C16: process_video rotates the working source exactly when its display
\* ratio r satisfies 1.0 <= r <= 16/9; the rotation step swaps the working
\* dimensions, and the foreground geometry computed afterwards is the one of
\* the swapped dimensions.
C16_RotationDecision ==
    /\ [](prog = "qw" =>
            /\ pc = "rotate" =>
                 InRotationRange(original_ratio[1], original_ratio[2])
            /\ (pc \in {"scale", "featherA", "featherB", "compose"}
                    /\ input_path # "rotated") =>
                 ~InRotationRange(original_ratio[1], original_ratio[2])
            /\ (pc \in {"scale", "featherA", "featherB", "compose"}
                    /\ input_path = "rotated") =>
                 InRotationRange(original_ratio[2], original_ratio[1])
            /\ pc \in {"featherA", "featherB", "compose"} =>
                 fg = foreground(raw[1], raw[2], original_ratio))
    /\ [][ (prog = "qw" /\ pc = "rotate" /\ pc' = "scale") =>
                /\ raw' = <<raw[2], raw[1]>>
                /\ original_ratio' = <<original_ratio[2], original_ratio[1]>>
                /\ input_path' = "rotated" ]_vars

\* C16 witness: a 1280x960 source was rotated and its foreground computed
\* from 960x1280
C16_Witness ==
    /\ prog = "qw" /\ pc = "featherA"
    /\ input_path = "rotated"
    /\ raw = <<960, 1280>>
    /\ fg = foreground(960, 1280, <<960, 1280>>)

\* C17: whenever the probed duration of a source exceeds MAX_DURATION, the
\* working source of the rotation decision and of every later stage is the
\* trimmed file of TRIM_DURATION seconds, never the overlong original.
C17_TrimPrecedesAll ==
    (prog = "qw"
        /\ pc \in {"rotate", "scale", "featherA", "featherB", "compose"})
    => duration <= MAX_DURATION

\* C18: for every source that reaches compositing, the foreground size
\* computed by create_feathered_foreground fits the canvas:
\* scaled_width <= target_width and scaled_height <= target_height.
C18_ForegroundFits ==
    (prog = "qw" /\ pc \in {"featherA", "featherB", "compose"})
    => (fg.scaled_width <= target_width /\ fg.scaled_height <= target_height)

\* C19: for every source size and both presets, the overlay offsets of the
\* foreground are never negative (x is the literal 0; y is
\* y_off = (sth - sh) // 2) in every engine command of the gui and the
\* wallpaper scripts.
C19_OffsetsNonNegative ==
    /\ prog = "gui" =>
          \A i \in 1..Len(unit_launches) : unit_launches[i].filter.y_off >= 0
    /\ (prog = "wall" /\ pc = "task") =>
          filter_str(raw[1], raw[2], ri).y_off >= 0

C21_ProbeTolerance ==
    na_file # 0 =>
        /\ na_file \notin probe_failed
        /\ prog \in {"gui", "ff"} => abort_at # na_file

\* C22: for every unit, the feather width used to build the mask or the
\* alpha ramp is strictly less than half of the smaller dimension of the
\* target canvas.
C22_FeatherClamp ==
    /\ prog = "gui" =>
          \A i \in 1..Len(unit_launches) :
             2 * unit_launches[i].filter.feather
                < Min(unit_launches[i].filter.sw, unit_launches[i].filter.sth)
    /\ (prog = "wall" /\ pc = "task") =>
          2 * filter_str(raw[1], raw[2], ri).feather
             < Min(filter_str(raw[1], raw[2], ri).sw,
                   filter_str(raw[1], raw[2], ri).sth)
    /\ (prog = "qw" /\ pc \in {"featherA", "featherB"}) =>
          2 * FEATHER_WIDTH < Min(target_width, target_height)

IsEven(n) == n % 2 = 0

\* C23: for every source width and height and every target ratio, the width
\* and the height of the target canvas passed to the engine are even.
C23_EvenCanvas ==
    /\ (prog = "ff" /\ pc = "task") =>
          /\ IsEven(new_canvas(raw[1], raw[2])[1])
          /\ IsEven(new_canvas(raw[1], raw[2])[2])
    /\ prog = "gui" =>
          \A i \in 1..Len(unit_launches) :
             /\ IsEven(unit_launches[i].filter.sw)
             /\ IsEven(unit_launches[i].filter.sth)
    /\ (prog = "wall" /\ pc = "task") =>
          /\ IsEven(filter_str(raw[1], raw[2], ri).sw)
          /\ IsEven(filter_str(raw[1], raw[2], ri).sth)
    /\ pc = "start" =>
          \A w \in 1..MaxDim, h \in 1..MaxDim :
             /\ IsEven(new_canvas(w, h)[1]) /\ IsEven(new_canvas(w, h)[2])
             /\ \A r \in 1..Len(Ratios) :
                  /\ IsEven(filter_str(w, h, r).sw)
                  /\ IsEven(filter_str(w, h, r).sth)

\* C23 witness: the engine of Video_Edit_FF runs on a 1000x1000 source,
\* whose canvas height 1777 was made even
C23_Witness ==
    /\ prog = "ff" /\ pc = "task"
    /\ raw = <<1000, 1000>>
    /\ new_canvas(raw[1], raw[2]) = <<1000, 1778>>

\* C24: in VideoWorker.run the software-encoder process of a unit is started
\* only after the hardware-encoder process of that unit has exited, so two
\* engine processes writing the same output path are never alive together.
C24_SwAfterHwExited ==
    (prog = "gui" /\ proc.sw = "alive") => proc.hw \in {"exit0", "exit1"}

\* C25: once the cancel flag is set (is_running = False) VideoWorker starts
\* no engine process, hardware or software.
C25_NoLaunchAfterCancel ==
    [][ (prog = "gui" /\ ~is_running) => unit_launches' = unit_launches ]_vars

\* C26: after the cancel flag is set, completed_tasks (and with it the
\* overall progress value computed from it) does not increase: a unit whose
\* encode was interrupted by the cancellation is not counted.
C26_CancelledUnitNotCounted ==
    [][ (prog = "gui" /\ ~is_running)
            => completed_tasks' <= completed_tasks ]_vars

\* C27: the watchdog has no false positive.  Every change of
\* last_frame_count restarts the measured time at 0, the measured time grows
\* only by the clock while the counter stays as it is, and a call returns the
\* stall outcome only in a step where the line read brings no new frame
\* number and more than 25 seconds have been measured.
C27_WatchdogNoFalsePositive ==
    [][ prog = "gui" =>
          /\ (attempt # "none" /\ attempt' = attempt
                 /\ last_frame_count' # last_frame_count) => idle' = 0
          /\ (attempt' = attempt /\ idle' > idle) =>
                 (idle' = idle + TickSecs
                    /\ last_frame_count' = last_frame_count)
          /\ (TaskReturns /\ ReturnedOutcome = "stall") =>
                 /\ idle > 25
                 /\ pipe # << >>
                 /\ ~(Head(pipe).tok /\ Head(pipe).n # last_frame_count) ]_vars

\* C27 witness: the watchdog has terminated the hardware process of a unit
C27_Witness ==
    /\ prog = "gui" /\ is_running
    /\ gpu_out = "stall" /\ proc.hw = "killed"
    /\ attempt = "sw"

\* C28: every way VideoWorker.run ends emits finished_signal exactly once
\* (the only signal that re-enables the start button).
C28_FinishedExactlyOnce ==
    /\ finished_signals <= 1
    /\ (prog = "gui" /\ pc = "done") => finished_signals = 1

\* the rotation decision of a source of raw_w x raw_h: the transpose filter
\* is used exactly when raw_w > raw_h, and the working size is the source
\* size, with its sides exchanged exactly in that case
RotatedIffWider(raw_w, raw_h) ==
    /\ \A r \in 1..Len(Ratios) :
          (filter_str(raw_w, raw_h, r).trans = "transpose=1") <=> raw_w > raw_h
    /\ working(raw_w, raw_h) = IF raw_w > raw_h THEN <<raw_h, raw_w>>
                               ELSE <<raw_w, raw_h>>

C30_MaskMatchesForeground ==
    (prog \in {"gui", "wall"} /\ pc = "task") =>
        << filter_str(raw[1], raw[2], ri).sw,
           filter_str(raw[1], raw[2], ri).sh >> = working(raw[1], raw[2])

====
